---------------------------- MODULE Spec2Model ----------------------------
(***************************************************************************)
(* A model of the finite-category engine, the finite sets, the standard    *)
(* theory library and the expression parser of CatColab's catlog crate.    *)
(*                                                                         *)
(*   FinCategory   src/catlog/src/one/fin_category.rs                      *)
(*   SkelFinSet,                                                           *)
(*   HashFinSet    src/catlog/src/zero/set.rs, src/catlog/src/set.rs       *)
(*   theories      src/catlog/src/stdlib/theories.rs,                      *)
(*                 src/packages/catlog/src/stdlib/theories.rs              *)
(*   Parser        src/packages/catlog/src/zero/mathexpr/parser.rs         *)
(***************************************************************************)
EXTENDS Integers, Sequences, FiniteSets, TLC

VARIABLES
    generators,     \* FinCategory.generators: the generating graph
    compose_map,    \* FinCategory.compose_map: (E,E) -> FinHom, partial
    request,        \* the call the client makes of the category
    call,           \* the client's call as last made, with its result
    skel,           \* zero/set.rs SkelFinSet.0: the size n
    skel_unit,      \* set.rs SkelFinSet.0, whose insert returns nothing
    hash,           \* HashFinSet.0: the hash set
    set_call,       \* the last set operation: arguments, state before, result
    crate,          \* the stdlib/theories.rs the process is built from
    once,           \* per theory, the state of its OnceLock
    cell,           \* per theory, the value its OnceLock holds
    builds,         \* per theory, how many times its builder has been entered
    thread,         \* per thread, where it is in a call of a theory function
    returned,       \* the theories handed back to callers so far
    tokens,         \* Parser.tokens: the kinds of the lexed tokens
    pos,            \* Parser.pos
    fuel,           \* Parser.fuel
    pc,             \* where the parser is in parse, term, summand or factor
    stack,          \* where each function under way returns to
    result          \* the Result last returned, or the panic that ended the parse

catVars == <<generators, compose_map, request, call>>

setVars == <<skel, skel_unit, hash, set_call>>

thyVars == <<crate, once, cell, builds, thread, returned>>

parserVars == <<tokens, pos, fuel, pc, stack, result>>

vars == <<generators, compose_map, request, call, skel, skel_unit, hash, set_call,
          crate, once, cell, builds, thread, returned,
          tokens, pos, fuel, pc, stack, result>>

(***************************************************************************)
(* Values.                                                                 *)
(***************************************************************************)

\* FinHom<V,E>: the two variants, tagged as the serde representation tags them.
Id(v) == [tag |-> "Id", content |-> v]

Generator(e) == [tag |-> "Generator", content |-> e]

\* A failed assert!/expect: the call unwinds with this message and returns nothing.
Panic(msg) == [tag |-> "panic", content |-> msg]

IsPanic(r) == r.tag = "panic"

\* Path<V,FinHom>: Path::Id(x), or Path::Seq of a non-empty list.
PathId(x) == [tag |-> "Id", content |-> x]

PathSeq(fs) == [tag |-> "Seq", content |-> fs]

\* Object names the operations are driven with: the test's 'V' and 'E', and a
\* name that is never added as an object generator.
Obs == {"V", "E"}

Stranger == "X"

\* Edge names of the test's schema of symmetric graphs.
Edges == {"s", "t", "i"}

Homs == {Id(v) : v \in Obs \cup {Stranger}} \cup {Generator(e) : e \in Edges}

(***************************************************************************)
(* The generating graph (HashGraph): a vertex set, an edge set and the     *)
(* source and target of each edge.                                         *)
(***************************************************************************)

EmptyGraph ==
    [vertex_set |-> {}, edge_set |-> {}, src_map |-> <<>>, tgt_map |-> <<>>]

\* Column::set: the mapping with key k set to value x, overwriting.
ColumnSet(m, k, x) ==
    [j \in (DOMAIN m) \cup {k} |-> IF j = k THEN x ELSE m[j]]

has_vertex(g, v) == v \in g.vertex_set

has_edge(g, e) == e \in g.edge_set

add_vertex(g, v) == [g EXCEPT !.vertex_set = @ \cup {v}]

add_edge(g, e, dom, cod) ==
    [g EXCEPT !.edge_set = @ \cup {e},
              !.src_map = ColumnSet(@, e, dom),
              !.tgt_map = ColumnSet(@, e, cod)]

\* The recorded source / target of an edge; an edge the graph does not hold
\* has none, and asking for it is fatal.
graph_src(g, e) ==
    IF e \in DOMAIN g.src_map THEN g.src_map[e] ELSE Panic("no source")

graph_tgt(g, e) ==
    IF e \in DOMAIN g.tgt_map THEN g.tgt_map[e] ELSE Panic("no target")

edges(g) == g.edge_set


(***************************************************************************)
(* FinCategory: the Category and FgCategory implementations, as operators  *)
(* of the current state (&self).                                           *)
(***************************************************************************)

has_ob(x) == has_vertex(generators, x)

has_hom(f) ==
    IF f.tag = "Id" THEN has_vertex(generators, f.content)
    ELSE has_edge(generators, f.content)

dom(f) ==
    IF f.tag = "Id" THEN f.content ELSE graph_src(generators, f.content)

cod(f) ==
    IF f.tag = "Id" THEN f.content ELSE graph_tgt(generators, f.content)

id(x) == Id(x)

\* compose_generators without its assertion: the table alone decides.
compose_generators_unasserted(d, e) ==
    IF <<d, e>> \notin DOMAIN compose_map
    THEN Panic("Composition should be defined")
    ELSE compose_map[<<d, e>>]

\* compose_generators with a default in place of the expect: a missing
\* composite becomes the identity on the target.
compose_generators_defaulting(d, e) ==
    IF ~has_edge(generators, d) THEN graph_tgt(generators, d)
    ELSE IF ~has_edge(generators, e) THEN graph_src(generators, e)
    ELSE IF graph_tgt(generators, d) # graph_src(generators, e)
    THEN Panic("(Co)domains should be equal")
    ELSE IF <<d, e>> \notin DOMAIN compose_map
    THEN Id(graph_tgt(generators, e))
    ELSE compose_map[<<d, e>>]

\* The generator arm of compose2: the assertion on the (co)domains, then the
\* table lookup.
compose_generators(d, e) ==
    IF ~has_edge(generators, d) THEN graph_tgt(generators, d)
    ELSE IF ~has_edge(generators, e) THEN graph_src(generators, e)
    ELSE IF graph_tgt(generators, d) # graph_src(generators, e)
    THEN Panic("(Co)domains should be equal")
    ELSE IF <<d, e>> \notin DOMAIN compose_map
    THEN Panic("Composition should be defined")
    ELSE compose_map[<<d, e>>]

\* compose2 with its two identity arms in the other order.
compose2_right_arm_first(f, g) ==
    IF g.tag = "Id" THEN f
    ELSE IF f.tag = "Id" THEN g
    ELSE compose_generators(f.content, g.content)

\* compose2 whose first arm returns the identity instead of dropping it.
compose2_keeping_identity(f, g) ==
    IF f.tag = "Id" THEN f
    ELSE IF g.tag = "Id" THEN f
    ELSE compose_generators(f.content, g.content)

compose2(f, g) ==
    IF f.tag = "Id" THEN g
    ELSE IF g.tag = "Id" THEN f
    ELSE compose_generators(f.content, g.content)

\* A fold from the right: the tail is composed first, then the head with it.
RECURSIVE fold_right(_, _)
fold_right(f, tail) ==
    IF tail = <<>> THEN f
    ELSE LET r == fold_right(Head(tail), Tail(tail))
         IN  IF IsPanic(r) THEN r ELSE compose2(f, r)

\* Iterator::fold over the tail with compose2, starting from the head; a panic
\* inside the closure unwinds out of the fold.
RECURSIVE fold(_, _)
fold(f, tail) ==
    IF tail = <<>> THEN f
    ELSE LET r == compose2(f, Head(tail))
         IN  IF IsPanic(r) THEN r ELSE fold(r, Tail(tail))

compose(path) ==
    IF path.tag = "Id" THEN id(path.content)
    ELSE fold(Head(path.content), Tail(path.content))

has_ob_generator(x) == has_vertex(generators, x)

\* has_hom_generator answering as has_hom does.
has_hom_generator_as_has_hom(f) == has_hom(f)

has_hom_generator(f) ==
    IF f.tag = "Id" THEN FALSE ELSE has_edge(generators, f.content)

ob_generators == generators.vertex_set

hom_generators == {Generator(e) : e \in edges(generators)}

(***************************************************************************)
(* Inputs of the operations.                                               *)
(***************************************************************************)

\* Longest path handed to compose, besides the test's own path.
MaxPathLen == 3

\* The generators of the test's schema of symmetric graphs.
HomGenInputs == {<<"s", "E", "V">>, <<"t", "E", "V">>, <<"i", "E", "E">>}

\* The test's composites, a second value for the pair (i, t), and an entry
\* for a pair whose target and source differ.
CompositeInputs ==
    {<<"i", "i", Id("E")>>, <<"i", "s", Generator("t")>>,
     <<"i", "t", Generator("s")>>, <<"i", "t", Generator("t")>>,
     <<"s", "t", Generator("s")>>}

PathHoms == {Id("E"), Generator("i"), Generator("s"), Generator("t")}

SeqsUpTo(S, n) == UNION {[1..k -> S] : k \in 1..n}

\* The path of the test: [i, Id(E), i, i, s].
TestPath ==
    <<Generator("i"), Id("E"), Generator("i"), Generator("i"), Generator("s")>>

PathInputs ==
    {PathId(x) : x \in Obs \cup {Stranger}}
        \cup {PathSeq(fs) : fs \in SeqsUpTo(PathHoms, MaxPathLen) \cup {TestPath}}

\* What the client asks of the category once it is built.
Requests ==
    {[op |-> "compose2", args |-> <<f, g>>] : f \in Homs, g \in Homs}
        \cup {[op |-> "compose", args |-> <<path>>] : path \in PathInputs}
        \cup {[op |-> "has_hom", args |-> <<f>>] : f \in Homs}
        \cup {[op |-> "has_hom_generator", args |-> <<f>>] : f \in Homs}
        \cup {[op |-> "hom_generators", args |-> <<>>]}
        \cup {[op |-> "add_ob_generator", args |-> <<v>>] : v \in Obs}
        \cup {[op |-> "add_hom_generator", args |-> h] : h \in HomGenInputs}
        \cup {[op |-> "set_composite", args |-> c] : c \in CompositeInputs}

(***************************************************************************)
(* FinCategory: the operations.                                            *)
(***************************************************************************)

\* The client's call not made since the category last changed.
NoCall == [op |-> "none", args |-> <<>>, ret |-> <<>>]

\* What `call` holds after a build call: the call and its result when it is the
\* one the client asked for, nothing otherwise.
Observed(op, args, ret) ==
    IF request.op = op /\ request.args = args THEN request @@ [ret |-> ret]
    ELSE NoCall

add_ob_generator(v) ==
    /\ generators' = add_vertex(generators, v)
    /\ call' = Observed("add_ob_generator", <<v>>, ~has_vertex(generators, v))
    /\ UNCHANGED <<compose_map, request, setVars, thyVars, parserVars>>

add_ob_generators(vs) ==
    /\ generators' = [generators EXCEPT !.vertex_set = @ \cup vs]
    /\ call' = NoCall
    /\ UNCHANGED <<compose_map, request, setVars, thyVars, parserVars>>

\* add_hom_generator answering true whether or not the edge is new.
add_hom_generator_always_new(e, d, c) ==
    /\ generators' = add_edge(generators, e, d, c)
    /\ call' = Observed("add_hom_generator", <<e, d, c>>, TRUE)
    /\ UNCHANGED <<compose_map, request, setVars, thyVars, parserVars>>

add_hom_generator(e, d, c) ==
    /\ generators' = add_edge(generators, e, d, c)
    /\ call' = Observed("add_hom_generator", <<e, d, c>>, ~has_edge(generators, e))
    /\ UNCHANGED <<compose_map, request, setVars, thyVars, parserVars>>

\* set_composite that keeps the entry a pair already has.
set_composite_keeping_first(d, e, f) ==
    /\ compose_map' = IF <<d, e>> \in DOMAIN compose_map THEN compose_map
                      ELSE ColumnSet(compose_map, <<d, e>>, f)
    /\ call' = Observed("set_composite", <<d, e, f>>, <<>>)
    /\ UNCHANGED <<generators, request, setVars, thyVars, parserVars>>

set_composite(d, e, f) ==
    /\ compose_map' = ColumnSet(compose_map, <<d, e>>, f)
    /\ call' = Observed("set_composite", <<d, e, f>>, <<>>)
    /\ UNCHANGED <<generators, request, setVars, thyVars, parserVars>>

Compose2Call ==
    /\ request.op = "compose2"
    /\ call' = request @@ [ret |-> compose2(request.args[1], request.args[2])]
    /\ UNCHANGED <<generators, compose_map, request, setVars, thyVars, parserVars>>

ComposeCall ==
    /\ request.op = "compose"
    /\ call' = request @@ [ret |-> compose(request.args[1])]
    /\ UNCHANGED <<generators, compose_map, request, setVars, thyVars, parserVars>>

HasHomCall ==
    /\ request.op = "has_hom"
    /\ call' = request @@ [ret |-> has_hom(request.args[1])]
    /\ UNCHANGED <<generators, compose_map, request, setVars, thyVars, parserVars>>

HasHomGeneratorCall ==
    /\ request.op = "has_hom_generator"
    /\ call' = request @@ [ret |-> has_hom_generator(request.args[1])]
    /\ UNCHANGED <<generators, compose_map, request, setVars, thyVars, parserVars>>

HomGeneratorsCall ==
    /\ request.op = "hom_generators"
    /\ call' = request @@ [ret |-> hom_generators]
    /\ UNCHANGED <<generators, compose_map, request, setVars, thyVars, parserVars>>

NextFinCategory ==
    \/ \E v \in Obs : add_ob_generator(v)
    \/ add_ob_generators(Obs)
    \/ \E h \in HomGenInputs : add_hom_generator(h[1], h[2], h[3])
    \/ \E c \in CompositeInputs : set_composite(c[1], c[2], c[3])
    \/ Compose2Call
    \/ ComposeCall
    \/ HasHomCall
    \/ HasHomGeneratorCall
    \/ HomGeneratorsCall

(***************************************************************************)
(* Finite sets: SkelFinSet and HashFinSet.                                 *)
(***************************************************************************)

\* Width of usize in the model, in bits.
UsizeBits == 3

UsizeRange == 2 ^ UsizeBits

Usize == 0..(UsizeRange - 1)

\* Elements handed to the hash set: those of the tests.
HashElems == {3, 5, 7}

\* Longest iterator handed to HashFinSet's extend.
MaxExtendLen == 2

\* std::ops::Range<usize>: start..end.
Range(start, end) == [start |-> start, end |-> end]

\* The elements a Range yields, in order: none when end <= start.
RangeSeq(r) == [j \in 1..(IF r.end > r.start THEN r.end - r.start ELSE 0)
                   |-> r.start + j - 1]

\* `self.0 += k` on a usize. A sum that does not fit either panics (overflow
\* checks on, the dev profile) or wraps (overflow checks off, the release
\* profile): the outcomes a build can produce.
AddAssign(n, k) ==
    IF n + k < UsizeRange THEN {[ok |-> TRUE, val |-> n + k]}
    ELSE {[ok |-> FALSE, val |-> n], [ok |-> TRUE, val |-> (n + k) % UsizeRange]}

SkelFinSet_new(n) == n

SkelFinSet_contains(n, x) == x < n

\* An iterator over 0..=n, one element too many.
SkelFinSet_iter_inclusive(n) == RangeSeq(Range(0, n + 1))

SkelFinSet_iter(n) == RangeSeq(Range(0, n))

SkelFinSet_len(n) == n

\* zero/set.rs takes FinSet's default is_empty; so does set.rs.
FinSet_is_empty(len) == len = 0

\* set.rs: FinSet's default len is iter().len().
FinSet_len(iter) == Len(iter)

HashFinSet_contains(h, x) == x \in h

\* HashSet's iterator yields each element once, in no particular order.
HashFinSet_iter(h) == h

HashFinSet_len(h) == Cardinality(h)

HashFinSet_is_empty(h) == h = {}

\* A call that returned, with its value.
Return(v) == [tag |-> "return", content |-> v]

NoSetCall == [op |-> "none", args |-> <<>>, pre |-> <<>>, ret |-> <<>>]

\* zero/set.rs SkelFinSet::insert: let new = self.0; self.0 += 1; new
SkelFinSet_insert ==
    \E r \in AddAssign(skel, 1) :
        /\ skel' = r.val
        /\ set_call' = [op |-> "SkelFinSet::insert", args |-> <<>>, pre |-> skel,
                        ret |-> IF r.ok THEN Return(skel)
                                ELSE Panic("attempt to add with overflow")]
        /\ UNCHANGED <<skel_unit, hash, catVars, thyVars, parserVars>>

\* zero/set.rs SkelFinSet::extend: let start = self.0; self.0 += n; start..self.0
SkelFinSet_extend(n) ==
    \E r \in AddAssign(skel, n) :
        /\ skel' = r.val
        /\ set_call' = [op |-> "SkelFinSet::extend", args |-> <<n>>, pre |-> skel,
                        ret |-> IF r.ok THEN Return(Range(skel, r.val))
                                ELSE Panic("attempt to add with overflow")]
        /\ UNCHANGED <<skel_unit, hash, catVars, thyVars, parserVars>>

\* set.rs SkelFinSet::insert: self.0 += 1, returning nothing.
SkelFinSet_insert_unit ==
    \E r \in AddAssign(skel_unit, 1) :
        /\ skel_unit' = r.val
        /\ set_call' = [op |-> "set::SkelFinSet::insert", args |-> <<>>,
                        pre |-> skel_unit,
                        ret |-> IF r.ok THEN Return(<<>>)
                                ELSE Panic("attempt to add with overflow")]
        /\ UNCHANGED <<skel, hash, catVars, thyVars, parserVars>>

\* HashFinSet::insert answering true whether or not the element is new.
HashFinSet_insert_always_new(x) ==
    /\ hash' = hash \cup {x}
    /\ set_call' = [op |-> "HashFinSet::insert", args |-> <<x>>, pre |-> hash,
                    ret |-> Return(TRUE)]
    /\ UNCHANGED <<skel, skel_unit, catVars, thyVars, parserVars>>

\* HashFinSet::insert: HashSet::insert, true iff the element was not present.
HashFinSet_insert(x) ==
    /\ hash' = hash \cup {x}
    /\ set_call' = [op |-> "HashFinSet::insert", args |-> <<x>>, pre |-> hash,
                    ret |-> Return(x \notin hash)]
    /\ UNCHANGED <<skel, skel_unit, catVars, thyVars, parserVars>>

\* impl Extend for HashFinSet: every element of the iterator is inserted.
HashFinSet_extend(iter) ==
    /\ hash' = hash \cup {iter[j] : j \in DOMAIN iter}
    /\ set_call' = [op |-> "HashFinSet::extend", args |-> <<iter>>, pre |-> hash,
                    ret |-> Return(<<>>)]
    /\ UNCHANGED <<skel, skel_unit, catVars, thyVars, parserVars>>

NextFinSets ==
    \/ SkelFinSet_insert
    \/ \E n \in Usize : SkelFinSet_extend(n)
    \/ SkelFinSet_insert_unit
    \/ \E x \in HashElems : HashFinSet_insert(x)
    \/ \E iter \in {<<>>} \cup SeqsUpTo(HashElems, MaxExtendLen) :
           HashFinSet_extend(iter)

(***************************************************************************)
(* The standard theories. catlog/src/stdlib/theories.rs keeps each theory  *)
(* in a static OnceLock and hands out references to it;                    *)
(* packages/catlog/src/stdlib/theories.rs builds the theory in the call    *)
(* and returns it by value.                                                *)
(***************************************************************************)

\* Threads calling the theory functions.
NumThreads == 2

\* Entries into a builder made in a run.
MaxBuilds == 3

Threads == 1..NumThreads

Crates == {"catlog", "packages/catlog"}

\* The theories both crates define, and the one only packages/catlog has.
DiscreteTheories == {"th_category", "th_schema", "th_signed_category"}

Theories == DiscreteTheories \cup {"th_category_links"}

TheoriesOf(c) == IF c = "catlog" THEN DiscreteTheories ELSE Theories

\* UstrFinCategory: Default::default().
DefaultFinCategory == [generators |-> EmptyGraph, compose_map |-> <<>>]

\* UstrDiscreteTabTheory: Default::default(), no object or morphism types.
DefaultTabTheory == [ob_types |-> {}, mor_types |-> {}, src |-> <<>>, tgt |-> <<>>]

\* TabObType::Basic(x), and the types the tabulator extension constructs:
\* hom_type(x), the hom type of an object type, and tabulator(m), the
\* tabulator of a morphism type. Both only construct a value (&self).
TabObType_Basic(x) == [tag |-> "Basic", content |-> x]

hom_type(x) == [tag |-> "Hom", content |-> x]

tabulator(m) == [tag |-> "Tabulator", content |-> m]

\* DiscreteTabTheory::add_ob_type(id), add_mor_type(id, src, tgt).
add_ob_type(th, x) == [th EXCEPT !.ob_types = @ \cup {x}]

add_mor_type(th, m, src, tgt) ==
    [th EXCEPT !.mor_types = @ \cup {m},
               !.src = ColumnSet(@, m, src),
               !.tgt = ColumnSet(@, m, tgt)]

BuildOp(op, args) == [op |-> op, args |-> args]

\* th_signed_category registering negative;negative as negative itself.
SignedCategoryBuilder_idempotent(x, n) ==
    <<BuildOp("add_ob_generator", <<x>>),
      BuildOp("add_hom_generator", <<n, x, x>>),
      BuildOp("set_composite", <<n, n, Generator(n)>>)>>

\* th_signed_category: the object x, the endomorphism n and n;n = Id(x).
SignedCategoryBuilder(x, n) ==
    <<BuildOp("add_ob_generator", <<x>>),
      BuildOp("add_hom_generator", <<n, x, x>>),
      BuildOp("set_composite", <<n, n, Id(x)>>)>>

\* th_category_links handing add_mor_type its two types in the other order.
CategoryLinksBuilder_swapped(x, l) ==
    <<BuildOp("add_ob_type", <<x>>),
      BuildOp("add_mor_type",
              <<l, tabulator(hom_type(TabObType_Basic(x))), TabObType_Basic(x)>>)>>

\* th_category_links: the object type x and the morphism type l, added with
\* the arguments in the order the call gives them.
CategoryLinksBuilder(x, l) ==
    <<BuildOp("add_ob_type", <<x>>),
      BuildOp("add_mor_type",
              <<l, TabObType_Basic(x), tabulator(hom_type(TabObType_Basic(x)))>>)>>

\* The statements of each builder, in order, up to DiscreteDblTheory::from.
Builder(c, th) ==
    IF c = "catlog" THEN
        CASE th = "th_category" ->
                 <<BuildOp("add_ob_generator", <<"object">>)>>
          [] th = "th_schema" ->
                 <<BuildOp("add_ob_generator", <<"entity">>),
                   BuildOp("add_ob_generator", <<"attr_type">>),
                   BuildOp("add_hom_generator", <<"attr", "entity", "attr_type">>)>>
          [] th = "th_signed_category" ->
                 SignedCategoryBuilder("object", "negative")
    ELSE
        CASE th = "th_category" ->
                 <<BuildOp("add_ob_generator", <<"Object">>)>>
          [] th = "th_schema" ->
                 <<BuildOp("add_ob_generator", <<"Entity">>),
                   BuildOp("add_ob_generator", <<"AttrType">>),
                   BuildOp("add_hom_generator", <<"Attr", "Entity", "AttrType">>)>>
          [] th = "th_signed_category" ->
                 SignedCategoryBuilder("Object", "Negative")
          [] th = "th_category_links" ->
                 CategoryLinksBuilder("Object", "Link")

\* One builder statement on the builder's own category.
ApplyBuildOp(cat, b) ==
    CASE b.op = "add_ob_generator" ->
             [cat EXCEPT !.generators = add_vertex(@, b.args[1])]
      [] b.op = "add_hom_generator" ->
             [cat EXCEPT !.generators = add_edge(@, b.args[1], b.args[2], b.args[3])]
      [] b.op = "set_composite" ->
             [cat EXCEPT !.compose_map =
                             ColumnSet(@, <<b.args[1], b.args[2]>>, b.args[3])]
      [] b.op = "add_ob_type" -> add_ob_type(cat, b.args[1])
      [] b.op = "add_mor_type" ->
             add_mor_type(cat, b.args[1], b.args[2], b.args[3])

\* DiscreteDblTheory::from: the theory wraps the category.
DiscreteDblTheory_from(cat) == [category |-> cat]

\* What a builder starts from, and what it returns of what it has built:
\* th_category_links builds the tabulator theory itself, the others a
\* category that DiscreteDblTheory::from wraps.
BuilderStart(th) ==
    IF th = "th_category_links" THEN DefaultTabTheory ELSE DefaultFinCategory

BuilderResult(th, built) ==
    IF th = "th_category_links" THEN built ELSE DiscreteDblTheory_from(built)

None == [tag |-> "None"]

IdleThread == [pc |-> "idle", th |-> "", cat |-> None, step |-> 0, instance |-> 0]

RECURSIVE Sum(_, _)
Sum(f, S) == IF S = {} THEN 0 ELSE LET x == CHOOSE y \in S : TRUE
                                   IN  f[x] + Sum(f, S \ {x})

TotalBuilds == Sum(builds, Theories)

\* A thread entering the builder of theory th: a fresh category, no statement
\* run yet. Each entry makes one more instance of the theory.
EnterBuilder(t, th) ==
    /\ builds' = [builds EXCEPT ![th] = @ + 1]
    /\ thread' = [thread EXCEPT ![t] =
                      [pc |-> "building", th |-> th, cat |-> BuilderStart(th),
                       step |-> 0, instance |-> builds[th] + 1]]

\* The value a caller gets back.
Handed(t, th, instance, value) ==
    [thread |-> t, th |-> th, instance |-> instance, value |-> value]

\* An initialisation that starts whenever the cell is not yet complete, also
\* while another thread is running the builder.
MayInitialize_unsynchronised(th) == once[th] # "complete"

\* Once: the thread that finds the state incomplete runs the builder.
MayInitialize(th) == once[th] = "incomplete"

\* OnceLock::get_or_init, the cell already initialised: a reference to it.
get_or_init_ready(t, th) ==
    /\ crate = "catlog"
    /\ thread[t].pc = "idle"
    /\ ~MayInitialize(th)
    /\ once[th] = "complete"
    /\ returned' = returned \cup {Handed(t, th, cell[th].instance, cell[th].value)}
    /\ UNCHANGED <<crate, once, cell, builds, thread, catVars, setVars, parserVars>>

\* OnceLock::get_or_init, the cell not initialised: this thread runs the closure.
get_or_init_start(t, th) ==
    /\ crate = "catlog"
    /\ thread[t].pc = "idle"
    /\ TotalBuilds < MaxBuilds
    /\ MayInitialize(th)
    /\ once' = [once EXCEPT ![th] = "running"]
    /\ EnterBuilder(t, th)
    /\ UNCHANGED <<crate, cell, returned, catVars, setVars, parserVars>>

\* OnceLock::get_or_init while another thread runs the closure: this one blocks.
get_or_init_block(t, th) ==
    /\ crate = "catlog"
    /\ thread[t].pc = "idle"
    /\ ~MayInitialize(th)
    /\ once[th] = "running"
    /\ thread' = [thread EXCEPT ![t] = [IdleThread EXCEPT !.pc = "blocked", !.th = th]]
    /\ UNCHANGED <<crate, once, cell, builds, returned, catVars, setVars, parserVars>>

\* A blocked thread resumes once the cell is complete, with a reference to it.
get_or_init_resume(t) ==
    /\ thread[t].pc = "blocked"
    /\ once[thread[t].th] = "complete"
    /\ returned' = returned \cup
           {Handed(t, thread[t].th, cell[thread[t].th].instance,
                   cell[thread[t].th].value)}
    /\ thread' = [thread EXCEPT ![t] = IdleThread]
    /\ UNCHANGED <<crate, once, cell, builds, catVars, setVars, parserVars>>

\* packages/catlog: a call of th_category(), th_schema() or th_signed_category()
\* starts building its own theory.
call_by_value(t, th) ==
    /\ crate = "packages/catlog"
    /\ thread[t].pc = "idle"
    /\ TotalBuilds < MaxBuilds
    /\ EnterBuilder(t, th)
    /\ UNCHANGED <<crate, once, cell, returned, catVars, setVars, parserVars>>

\* The next statement of the builder, on the builder's own category.
build_step(t) ==
    /\ thread[t].pc = "building"
    /\ thread[t].step < Len(Builder(crate, thread[t].th))
    /\ thread' = [thread EXCEPT
                      ![t].cat = ApplyBuildOp(@, Builder(crate, thread[t].th)
                                                     [thread[t].step + 1]),
                      ![t].step = @ + 1]
    /\ UNCHANGED <<crate, once, cell, builds, returned, catVars, setVars, parserVars>>

\* catlog: the closure returns DiscreteDblTheory::from(cat); the cell takes the
\* value and becomes complete, and the caller gets a reference to it.
publish(t) ==
    /\ crate = "catlog"
    /\ thread[t].pc = "building"
    /\ thread[t].step = Len(Builder(crate, thread[t].th))
    /\ LET th == thread[t].th
           value == BuilderResult(th, thread[t].cat)
       IN  /\ cell' = [cell EXCEPT ![th] =
                           [instance |-> thread[t].instance, value |-> value]]
           /\ once' = [once EXCEPT ![th] = "complete"]
           /\ returned' = returned \cup {Handed(t, th, thread[t].instance, value)}
    /\ thread' = [thread EXCEPT ![t] = IdleThread]
    /\ UNCHANGED <<crate, builds, catVars, setVars, parserVars>>

\* packages/catlog: the function returns DiscreteDblTheory::from(cat) by value.
return_by_value(t) ==
    /\ crate = "packages/catlog"
    /\ thread[t].pc = "building"
    /\ thread[t].step = Len(Builder(crate, thread[t].th))
    /\ returned' = returned \cup
           {Handed(t, thread[t].th, thread[t].instance,
                   BuilderResult(thread[t].th, thread[t].cat))}
    /\ thread' = [thread EXCEPT ![t] = IdleThread]
    /\ UNCHANGED <<crate, once, cell, builds, catVars, setVars, parserVars>>

\* Longest path of copies of one morphism type a caller composes.
MaxCopies == 4

\* The DblTheory queries of a discrete theory delegate to its category:
\* basic_ob_types to ob_generators, basic_mor_types to hom_generators, src and
\* tgt to dom and cod.
DiscreteDblTheory_basic_ob_types(thy) == thy.category.generators.vertex_set

DiscreteDblTheory_basic_mor_types(thy) ==
    {Generator(e) : e \in edges(thy.category.generators)}

DiscreteDblTheory_src(thy, m) ==
    IF m.tag = "Id" THEN m.content ELSE graph_src(thy.category.generators, m.content)

DiscreteDblTheory_tgt(thy, m) ==
    IF m.tag = "Id" THEN m.content ELSE graph_tgt(thy.category.generators, m.content)

\* The same queries of a tabulator theory, answered from its own tables.
DiscreteTabTheory_basic_ob_types(thy) == thy.ob_types

DiscreteTabTheory_basic_mor_types(thy) == thy.mor_types

DiscreteTabTheory_src(thy, m) == thy.src[m]

DiscreteTabTheory_tgt(thy, m) == thy.tgt[m]

\* k copies of the morphism m.
Copies(m, k) == [j \in 1..k |-> m]

\* A caller composes a path of morphism types in a discrete theory it was
\* handed: FinCategory::compose, with the theory's category as self.
compose_types(r, path) ==
    /\ r \in returned
    /\ r.th \in DiscreteTheories
    /\ generators' = r.value.category.generators
    /\ compose_map' = r.value.category.compose_map
    /\ call' = [op |-> "compose_types", args |-> <<r.th, path>>,
                ret |-> compose(path)']
    /\ UNCHANGED <<request, setVars, thyVars, parserVars>>

NextTheories ==
    \/ \E t \in Threads, th \in TheoriesOf(crate) : get_or_init_ready(t, th)
    \/ \E t \in Threads, th \in TheoriesOf(crate) : get_or_init_start(t, th)
    \/ \E t \in Threads, th \in TheoriesOf(crate) : get_or_init_block(t, th)
    \/ \E t \in Threads : get_or_init_resume(t)
    \/ \E t \in Threads, th \in TheoriesOf(crate) : call_by_value(t, th)
    \/ \E t \in Threads : build_step(t)
    \/ \E t \in Threads : publish(t)
    \/ \E t \in Threads : return_by_value(t)

\* The paths a caller composes in a discrete theory: the empty path at each
\* basic object type and the paths of copies of a basic morphism type.
TypePaths(thy) ==
    {PathId(x) : x \in DiscreteDblTheory_basic_ob_types(thy)}
        \cup {PathSeq(Copies(m, k)) :
                  m \in DiscreteDblTheory_basic_mor_types(thy), k \in 1..MaxCopies}

\* One caller on one thread: it calls the theory functions one after the
\* other and composes morphism types in the theories it was handed.
NextTheoryClient ==
    \/ \E th \in TheoriesOf(crate) : get_or_init_ready(1, th)
    \/ \E th \in TheoriesOf(crate) : get_or_init_start(1, th)
    \/ \E th \in TheoriesOf(crate) : call_by_value(1, th)
    \/ build_step(1)
    \/ publish(1)
    \/ return_by_value(1)
    \/ \E r \in {q \in returned : q.th \in DiscreteTheories} :
           \E path \in TypePaths(r.value) : compose_types(r, path)

(***************************************************************************)
(* The parser of mathematical expressions (zero/mathexpr/parser.rs): a     *)
(* recursive descent over the token kinds of a source that lexed without   *)
(* errors. The functions parse, term, summand and factor run one block at  *)
(* a time; `stack` holds the blocks the calls under way return to. The     *)
(* Term a function returns is not kept, only whether it is Ok or Err.      *)
(***************************************************************************)

\* Parser::new: Cell::new(256), and advance: self.fuel.set(256).
FuelInit == 256

\* Longest token sequence parsed, besides the deeply nested one.
MaxTokens == 3

\* token::Kind, as far as the parser names them.
TokenKinds ==
    {"LParen", "RParen", "Decimal", "Ident", "Plus", "Minus", "Times", "Slash"}

\* As many opening parentheses as the parser has fuel, then an operator.
DeepParens == [j \in 1..FuelInit |-> IF j < FuelInit THEN "LParen" ELSE "Times"]

TokenInputs == {<<>>} \cup SeqsUpTo(TokenKinds, MaxTokens) \cup {DeepParens}

NoResult == [tag |-> "none"]

Ok == [tag |-> "Ok"]

\* Error::UnexpectedToken { expecting, at }, Error::Other { message, at }: `at`
\* is the position whose span was taken.
Err_UnexpectedToken(kind, at) ==
    [tag |-> "Err", error |-> "UnexpectedToken", expecting |-> kind, at |-> at]

Err_UnexpectedEOF(kind) ==
    [tag |-> "Err", error |-> "UnexpectedEOF", expecting |-> kind]

Err_Other(message, at) ==
    [tag |-> "Err", error |-> "Other", message |-> message, at |-> at]

\* Parser::eof: self.pos == self.tokens.len()
eof == pos = Len(tokens)

\* The value of Parser::nth(n): the kind of the token n places ahead, Eof
\* past the end. (Each call also burns one unit of fuel: see ParserBlock.)
nth(n) == IF pos + n < Len(tokens) THEN tokens[pos + n + 1] ELSE "Eof"

\* Parser::at(kind): self.nth(0) == kind
at(kind) == nth(0) = kind

\* The calls of nth that at_any(kinds) makes: one per kind up to the first
\* that matches.
RECURSIVE at_any_calls(_)
at_any_calls(kinds) ==
    IF kinds = <<>> THEN 0
    ELSE IF at(Head(kinds)) THEN 1
    ELSE 1 + at_any_calls(Tail(kinds))

at_any(kinds) == \E j \in DOMAIN kinds : at(kinds[j])

\* Parser::span: self.tokens[self.pos].span, an index out of bounds at eof.
span == IF pos < Len(tokens) THEN pos ELSE Panic("index out of bounds")

\* The parse ends in a panic.
ParserPanics(msg) ==
    /\ pc' = "panicked"
    /\ result' = Panic(msg)
    /\ UNCHANGED <<tokens, pos, stack>>

\* One block of a parsing function: `calls` calls of nth, each panicking when
\* the fuel is used up and burning one unit otherwise; then advance() if the
\* block advances, asserting !eof, refuelling and moving one token on; then
\* on to next_pc with the stack and the returned Result as given.
ParserBlock(calls, advances, next_pc, next_stack, res) ==
    /\ IF fuel < calls
       THEN /\ ParserPanics("parser is stuck")
            /\ fuel' = 0
       ELSE IF advances /\ eof
       THEN /\ ParserPanics("assertion failed: !self.eof()")
            /\ fuel' = fuel - calls
       ELSE /\ pc' = next_pc
            /\ stack' = next_stack
            /\ result' = res
            /\ pos' = IF advances THEN pos + 1 ELSE pos
            /\ fuel' = IF advances THEN FuelInit ELSE fuel - calls
            /\ UNCHANGED tokens
    /\ UNCHANGED <<catVars, setVars, thyVars>>

\* A function calls another: the callee's first block, to return to `back`.
ParserCalls(calls, advances, callee, back) ==
    ParserBlock(calls, advances, callee, <<back>> \o stack, result)

\* A function returns res to its caller.
ParserReturns(calls, advances, res) ==
    ParserBlock(calls, advances, Head(stack), Tail(stack), res)

\* A block that evaluates span() for an error value: out of bounds at eof.
ParserReturnsSpanned(calls, res) ==
    IF fuel >= calls /\ eof
    THEN /\ ParserPanics(span.content)
         /\ fuel' = fuel - calls
         /\ UNCHANGED <<catVars, setVars, thyVars>>
    ELSE ParserReturns(calls, FALSE, res)

\* parse: Parser::new(source, &lexed.tokens), then term(&mut p).
parse_begin ==
    /\ pc = "parse"
    /\ ParserCalls(0, FALSE, "term", "parse_end")

\* parse: `term(&mut p)?`, then Ok(t) at eof and UnexpectedToken otherwise.
parse_end ==
    /\ pc = "parse_end"
    /\ IF result.tag = "Err" THEN ParserBlock(0, FALSE, "done", stack, result)
       ELSE IF eof THEN ParserBlock(0, FALSE, "done", stack, Ok)
       ELSE ParserBlock(0, FALSE, "done", stack, Err_UnexpectedToken("Eof", span))

\* term: the optional sign, then the first summand.
term_sign ==
    /\ pc = "term"
    /\ IF at("Plus") THEN ParserCalls(2, TRUE, "summand", "term_first")
       ELSE IF at("Minus") THEN ParserCalls(3, TRUE, "summand", "term_first")
       ELSE ParserCalls(2, FALSE, "summand", "term_first")

\* term: `summand(p)?`, then whether a sum follows.
term_first ==
    /\ pc = "term_first"
    /\ IF result.tag = "Err" THEN ParserReturns(0, FALSE, result)
       ELSE IF at_any(<<"Plus", "Minus">>)
       THEN ParserBlock(at_any_calls(<<"Plus", "Minus">>), FALSE, "term_loop",
                        stack, result)
       ELSE ParserReturns(at_any_calls(<<"Plus", "Minus">>), FALSE, Ok)

\* term: the head of the while loop, and in its body the sign, advance() and
\* the call of summand.
term_loop ==
    /\ pc = "term_loop"
    /\ IF at_any(<<"Plus", "Minus">>)
       THEN ParserCalls(at_any_calls(<<"Plus", "Minus">>) + 1, TRUE,
                        "summand", "term_next")
       ELSE ParserReturns(at_any_calls(<<"Plus", "Minus">>), FALSE, Ok)

\* term: `summand(p)?` in the loop.
term_next ==
    /\ pc = "term_next"
    /\ IF result.tag = "Err" THEN ParserReturns(0, FALSE, result)
       ELSE ParserBlock(0, FALSE, "term_loop", stack, result)

\* summand: the first factor.
summand_begin ==
    /\ pc = "summand"
    /\ ParserCalls(0, FALSE, "factor", "summand_first")

\* summand: `factor(p)?`, then whether a product follows.
summand_first ==
    /\ pc = "summand_first"
    /\ IF result.tag = "Err" THEN ParserReturns(0, FALSE, result)
       ELSE IF at_any(<<"Times", "Slash">>)
       THEN ParserBlock(at_any_calls(<<"Times", "Slash">>), FALSE, "summand_loop",
                        stack, result)
       ELSE ParserReturns(at_any_calls(<<"Times", "Slash">>), FALSE, Ok)

\* summand: the head of the while loop, and in its body the operator,
\* advance() and the call of factor.
summand_loop ==
    /\ pc = "summand_loop"
    /\ IF at_any(<<"Times", "Slash">>)
       THEN ParserCalls(at_any_calls(<<"Times", "Slash">>) + 1, TRUE,
                        "factor", "summand_next")
       ELSE ParserReturns(at_any_calls(<<"Times", "Slash">>), FALSE, Ok)

\* summand: `factor(p)?` in the loop.
summand_next ==
    /\ pc = "summand_next"
    /\ IF result.tag = "Err" THEN ParserReturns(0, FALSE, result)
       ELSE ParserBlock(0, FALSE, "summand_loop", stack, result)

\* factor: a parenthesised term, a decimal, an identifier, or the error
\* "expected start of factor" with the span of the current token.
factor_begin ==
    /\ pc = "factor"
    /\ IF at("LParen") THEN ParserCalls(2, TRUE, "term", "factor_close")
       ELSE IF at("Decimal") THEN ParserReturns(3, TRUE, Ok)
       ELSE IF at("Ident") THEN ParserReturns(4, TRUE, Ok)
       ELSE ParserReturnsSpanned(3, Err_Other("expected start of factor", span))

\* factor: `let t = term(p); p.expect(token::RParen)?; t`. The term's Result
\* is not looked at before expect runs.
factor_close ==
    /\ pc = "factor_close"
    /\ IF at("RParen") THEN ParserReturns(1, TRUE, result)
       ELSE IF ~eof THEN ParserReturns(1, FALSE, Err_UnexpectedToken("RParen", span))
       ELSE ParserReturns(1, FALSE, Err_UnexpectedEOF("RParen"))

NextParser ==
    \/ parse_begin
    \/ parse_end
    \/ term_sign
    \/ term_first
    \/ term_loop
    \/ term_next
    \/ summand_begin
    \/ summand_first
    \/ summand_loop
    \/ summand_next
    \/ factor_begin
    \/ factor_close

(***************************************************************************)
(* Specifications. Each part of the library is driven on its own, the      *)
(* other parts staying as constructed.                                     *)
(***************************************************************************)

NoRequest == [op |-> "none", args |-> <<>>]

\* A category under construction and the query its client will make.
InitFinCategory ==
    /\ generators = EmptyGraph
    /\ compose_map = <<>>
    /\ request \in Requests
    /\ call = NoCall
    /\ skel = SkelFinSet_new(0)
    /\ skel_unit = 0
    /\ hash = {}
    /\ set_call = NoSetCall
    /\ crate = "catlog"
    /\ once = [th \in Theories |-> "incomplete"]
    /\ cell = [th \in Theories |-> None]
    /\ builds = [th \in Theories |-> 0]
    /\ thread = [t \in Threads |-> IdleThread]
    /\ returned = {}
    /\ tokens = <<>>
    /\ pos = 0
    /\ fuel = FuelInit
    /\ pc = "idle"
    /\ stack = <<>>
    /\ result = NoResult

\* The empty sets: SkelFinSet::default(), SkelFinSet(0), HashFinSet::default().
InitFinSets ==
    /\ generators = EmptyGraph
    /\ compose_map = <<>>
    /\ request = NoRequest
    /\ call = NoCall
    /\ skel = SkelFinSet_new(0)
    /\ skel_unit = 0
    /\ hash = {}
    /\ set_call = NoSetCall
    /\ crate = "catlog"
    /\ once = [th \in Theories |-> "incomplete"]
    /\ cell = [th \in Theories |-> None]
    /\ builds = [th \in Theories |-> 0]
    /\ thread = [t \in Threads |-> IdleThread]
    /\ returned = {}
    /\ tokens = <<>>
    /\ pos = 0
    /\ fuel = FuelInit
    /\ pc = "idle"
    /\ stack = <<>>
    /\ result = NoResult

\* A process built from either crate, no theory function called yet.
InitTheories ==
    /\ generators = EmptyGraph
    /\ compose_map = <<>>
    /\ request = NoRequest
    /\ call = NoCall
    /\ skel = SkelFinSet_new(0)
    /\ skel_unit = 0
    /\ hash = {}
    /\ set_call = NoSetCall
    /\ crate \in Crates
    /\ once = [th \in Theories |-> "incomplete"]
    /\ cell = [th \in Theories |-> None]
    /\ builds = [th \in Theories |-> 0]
    /\ thread = [t \in Threads |-> IdleThread]
    /\ returned = {}
    /\ tokens = <<>>
    /\ pos = 0
    /\ fuel = FuelInit
    /\ pc = "idle"
    /\ stack = <<>>
    /\ result = NoResult

Init ==
    /\ generators = EmptyGraph
    /\ compose_map = <<>>
    /\ request \in Requests
    /\ call = NoCall
    /\ skel = SkelFinSet_new(0)
    /\ skel_unit = 0
    /\ hash = {}
    /\ set_call = NoSetCall
    /\ crate \in Crates
    /\ once = [th \in Theories |-> "incomplete"]
    /\ cell = [th \in Theories |-> None]
    /\ builds = [th \in Theories |-> 0]
    /\ thread = [t \in Threads |-> IdleThread]
    /\ returned = {}
    /\ tokens = <<>>
    /\ pos = 0
    /\ fuel = FuelInit
    /\ pc = "idle"
    /\ stack = <<>>
    /\ result = NoResult

\* parse called on a token sequence.
InitParser ==
    /\ generators = EmptyGraph
    /\ compose_map = <<>>
    /\ request = NoRequest
    /\ call = NoCall
    /\ skel = SkelFinSet_new(0)
    /\ skel_unit = 0
    /\ hash = {}
    /\ set_call = NoSetCall
    /\ crate = "packages/catlog"
    /\ once = [th \in Theories |-> "incomplete"]
    /\ cell = [th \in Theories |-> None]
    /\ builds = [th \in Theories |-> 0]
    /\ thread = [t \in Threads |-> IdleThread]
    /\ returned = {}
    /\ tokens \in TokenInputs
    /\ pos = 0
    /\ fuel = FuelInit
    /\ pc = "parse"
    /\ stack = <<>>
    /\ result = NoResult

Next ==
    NextFinCategory \/ NextFinSets \/ NextTheories \/ NextTheoryClient \/ NextParser

Spec == Init /\ [][Next]_vars

SpecFinCategory == InitFinCategory /\ [][NextFinCategory]_vars

SpecFinSets == InitFinSets /\ [][NextFinSets]_vars

SpecTheories == InitTheories /\ [][NextTheories]_vars

SpecTheoryClient == InitTheories /\ [][NextTheoryClient]_vars

SpecParser == InitParser /\ [][NextParser]_vars

(***************************************************************************)
(* Properties of FinCategory.                                              *)
(***************************************************************************)

BothGenerators(f, g) == f.tag = "Generator" /\ g.tag = "Generator"

\* Two generators the graph holds, the first ending where the second starts.
Composable(d, e) ==
    /\ has_edge(generators, d)
    /\ has_edge(generators, e)
    /\ graph_tgt(generators, d) = graph_src(generators, e)

Registered(d, e) == <<d, e>> \in DOMAIN compose_map

\* compose2 of an earlier result with g: nothing is composed after a panic.
Then(r, g) == IF IsPanic(r) THEN r ELSE compose2(r, g)

\* compose2(...compose2(compose2(h0, h1), h2)..., hn), written from the last
\* morphism inwards.
RECURSIVE LeftNested(_)
LeftNested(fs) ==
    IF Len(fs) = 1 THEN fs[1]
    ELSE Then(LeftNested(SubSeq(fs, 1, Len(fs) - 1)), fs[Len(fs)])

\* The test's category is built far enough for its path: i: E -> E and
\* s: E -> V are generators, i;i = Id(E) and i;s = t.
ReflexiveGraphBuilt ==
    /\ {"i", "s"} \subseteq generators.edge_set
    /\ generators.src_map["i"] = "E" /\ generators.tgt_map["i"] = "E"
    /\ generators.src_map["s"] = "E"
    /\ Registered("i", "i") /\ compose_map[<<"i", "i">>] = Id("E")
    /\ Registered("i", "s") /\ compose_map[<<"i", "s">>] = Generator("t")

\* C1: compose(Path::Id(x)) is Id(x); compose(Path::Seq[h0..hn]) is the
\* left-nested chain of compose2 over h0..hn; and in the reflexive-graph
\* category the path [i, Id(E), i, i, s] evaluates to Generator(t).
C1_ComposeIsLeftFold ==
    call.op = "compose" =>
        LET path == call.args[1]
        IN  /\ path.tag = "Id" => call.ret = Id(path.content)
            /\ path.tag = "Seq" => call.ret = LeftNested(path.content)
            /\ (path.tag = "Seq" /\ Len(path.content) = 1)
                   => call.ret = path.content[1]
            /\ (path.tag = "Seq" /\ Len(path.content) = 3)
                   => call.ret = Then(compose2(path.content[1], path.content[2]),
                                      path.content[3])
            /\ (path = PathSeq(TestPath) /\ ReflexiveGraphBuilt)
                   => call.ret = Generator("t")

C1_Witness ==
    /\ call.op = "compose"
    /\ call.args[1] = PathSeq(TestPath)
    /\ ReflexiveGraphBuilt
    /\ call.ret = Generator("t")

\* C2 as stated: compose2(Id(x), g) = g for every g and compose2(f, Id(y)) = f
\* for every f, whatever x and y are.
C2_IdentitiesTransparent_Original ==
    call.op = "compose2" =>
        LET f == call.args[1]
            g == call.args[2]
        IN  /\ f.tag = "Id" => call.ret = g
            /\ g.tag = "Id" => call.ret = f

\* C2, amended: compose2(Id(x), g) = g for every g; compose2(f, Id(y)) = f for
\* every f that is a generator or the identity Id(y) itself (of two
\* identities the second is returned); neither case looks at the table or
\* fails; and compose2(id(dom(f)), f) = f = compose2(f, id(cod(f))) for every
\* morphism f of the category.
C2_IdentitiesTransparent ==
    call.op = "compose2" =>
        LET f == call.args[1]
            g == call.args[2]
        IN  /\ f.tag = "Id" => call.ret = g
            /\ (g.tag = "Id" /\ (f.tag = "Generator" \/ f = g)) => call.ret = f
            /\ (f.tag = "Id" /\ g.tag = "Id") => call.ret = g
            /\ (f.tag = "Id" \/ g.tag = "Id") => ~IsPanic(call.ret)
            /\ (has_hom(g) /\ f = id(dom(g))) => call.ret = g
            /\ (has_hom(f) /\ g = id(cod(f))) => call.ret = f

C2_Witness ==
    /\ call.op = "compose2"
    /\ call.args[1] = Id("V")
    /\ call.args[2] = Id("E")
    /\ call.ret = Id("E")

\* C3: compose2 of two generators whose target and source differ panics,
\* also when the table holds an entry for the pair, and the failed call
\* leaves the generators and the table as they were.
C3_MismatchIsFatal ==
    [][(/\ call'.op = "compose2"
        /\ BothGenerators(call'.args[1], call'.args[2])
        /\ has_edge(generators, call'.args[1].content)
        /\ has_edge(generators, call'.args[2].content)
        /\ ~Composable(call'.args[1].content, call'.args[2].content))
       => /\ call'.ret = Panic("(Co)domains should be equal")
          /\ generators' = generators
          /\ compose_map' = compose_map]_vars

C3_Witness ==
    /\ call.op = "compose2"
    /\ call.args = <<Generator("s"), Generator("t")>>
    /\ {"s", "t"} \subseteq generators.edge_set
    /\ Registered("s", "t")
    /\ IsPanic(call.ret)

\* The left-fold steps of a path that compose two generators: step k composes
\* the result of the first k morphisms with morphism k + 1.
GeneratorSteps(fs) ==
    {k \in 1..(Len(fs) - 1) :
        LET acc == LeftNested(SubSeq(fs, 1, k))
        IN  ~IsPanic(acc) /\ BothGenerators(acc, fs[k + 1])}

StepPair(fs, k) ==
    <<LeftNested(SubSeq(fs, 1, k)).content, fs[k + 1].content>>

\* C4 as stated, its last part: compose succeeds whenever every pair of
\* generators (of the category) that the fold reaches is registered.
C4_MissingCompositeIsFatal_Original ==
    (call.op = "compose" /\ call.args[1].tag = "Seq") =>
        LET fs == call.args[1].content
        IN  (\A k \in GeneratorSteps(fs) :
                 /\ has_edge(generators, StepPair(fs, k)[1])
                 /\ has_edge(generators, StepPair(fs, k)[2])
                 /\ Registered(StepPair(fs, k)[1], StepPair(fs, k)[2]))
                => ~IsPanic(call.ret)

\* C4, amended: compose2 of two generators with matching target and source
\* and no table entry panics; compose on a path panics at the first fold step
\* whose (matching) generator pair is unregistered; and compose succeeds
\* whenever every generator pair the fold reaches has matching target and
\* source and is registered.
C4_MissingCompositeIsFatal ==
    /\ call.op = "compose2" =>
           LET f == call.args[1]
               g == call.args[2]
           IN  (/\ BothGenerators(f, g)
                /\ Composable(f.content, g.content)
                /\ ~Registered(f.content, g.content))
                   => call.ret = Panic("Composition should be defined")
    /\ (call.op = "compose" /\ call.args[1].tag = "Seq") =>
           LET fs == call.args[1].content
               pair(k) == StepPair(fs, k)
           IN  /\ (\E k \in GeneratorSteps(fs) :
                       /\ Composable(pair(k)[1], pair(k)[2])
                       /\ ~Registered(pair(k)[1], pair(k)[2]))
                      => call.ret = Panic("Composition should be defined")
               /\ (\A k \in GeneratorSteps(fs) :
                       /\ Composable(pair(k)[1], pair(k)[2])
                       /\ Registered(pair(k)[1], pair(k)[2]))
                      => ~IsPanic(call.ret)

C4_Witness ==
    /\ call.op = "compose"
    /\ call.args[1] = PathSeq(<<Generator("i"), Id("E"), Generator("s")>>)
    /\ Composable("i", "s")
    /\ ~Registered("i", "s")
    /\ call.ret = Panic("Composition should be defined")

\* Both ways of composing three generators, each a panic when one of its two
\* lookups fails.
LeftAssoc(d, e, g) ==
    Then(compose2(Generator(d), Generator(e)), Generator(g))

RightAssoc(d, e, g) ==
    LET r == compose2(Generator(e), Generator(g))
    IN  IF IsPanic(r) THEN r ELSE compose2(Generator(d), r)

Associative ==
    \A d \in generators.edge_set, e \in generators.edge_set,
       g \in generators.edge_set :
        (/\ Composable(d, e)
         /\ Composable(e, g)
         /\ ~IsPanic(LeftAssoc(d, e, g))
         /\ ~IsPanic(RightAssoc(d, e, g)))
            => LeftAssoc(d, e, g) = RightAssoc(d, e, g)

\* The composites the test registers: i;i = Id(E), i;s = t, i;t = s.
TestComposites ==
    {<<"i", "i", Id("E")>>, <<"i", "s", Generator("t")>>,
     <<"i", "t", Generator("s")>>}

\* Every entry of the table for a composable pair is one the test registers.
OnlyTestComposites ==
    \A p \in DOMAIN compose_map :
        Composable(p[1], p[2]) => <<p[1], p[2], compose_map[p]>> \in TestComposites

\* C5 as stated: after any sequence of build calls, composition of three
\* composable generators is associative whenever both sides are defined.
C5_Associativity_Original == Associative

\* C5, amended: set_composite checks nothing, so associativity is the
\* builder's to ensure; it holds whenever the table's entries for composable
\* pairs are those of the test's reflexive-graph schema.
C5_Associativity == OnlyTestComposites => Associative

C5_Witness ==
    /\ OnlyTestComposites
    /\ Composable("i", "i") /\ Composable("i", "s")
    /\ LeftAssoc("i", "i", "s") = Generator("s")
    /\ RightAssoc("i", "i", "s") = Generator("s")

\* C10: has_hom_generator holds exactly of the morphisms hom_generators()
\* yields; each of them is a Generator that satisfies has_hom_generator and
\* has_hom; has_hom_generator(Id(v)) is false for every v; and has_hom(Id(v))
\* holds iff v is an object.
C10_GeneratorsRoundTrip ==
    /\ call.op = "has_hom_generator" =>
           /\ call.ret = (call.args[1] \in hom_generators)
           /\ call.args[1].tag = "Id" => call.ret = FALSE
    /\ call.op = "hom_generators" =>
           /\ call.ret = {f \in Homs : has_hom_generator(f)}
           /\ \A f \in call.ret :
                  f.tag = "Generator" /\ has_hom_generator(f) /\ has_hom(f)
    /\ call.op = "has_hom" =>
           /\ call.args[1].tag = "Id"
                  => call.ret = (call.args[1].content \in generators.vertex_set)
           /\ call.args[1] \in hom_generators => call.ret = TRUE

C10_Witness ==
    /\ call.op = "has_hom_generator"
    /\ call.args[1] = Id("E")
    /\ has_hom(Id("E"))
    /\ generators.edge_set = Edges
    /\ call.ret = FALSE

\* C11: set_composite(d, e, r) overwrites the entry of the pair (d, e):
\* afterwards the table holds r for it and, when target(d) = source(e),
\* compose2(Generator(d), Generator(e)) returns r; every other pair, (e, d)
\* included, keeps the entry it had or stays without one; the generating
\* graph is unchanged; and the call returns normally whatever d, e and r are.
C11_SetCompositeOverwrites ==
    [][\A c \in CompositeInputs :
          (call'.op = "set_composite" /\ call'.args = c) =>
          LET d == c[1]
              e == c[2]
              r == c[3]
          IN  /\ call'.ret = <<>>
              /\ Registered(d, e)'
              /\ compose_map'[<<d, e>>] = r
              /\ Composable(d, e)' => compose2(Generator(d), Generator(e))' = r
              /\ DOMAIN compose_map' = DOMAIN compose_map \cup {<<d, e>>}
              /\ \A p \in DOMAIN compose_map \ {<<d, e>>} :
                     compose_map'[p] = compose_map[p]
              /\ \A p \in (Edges \X Edges) \ {<<d, e>>} :
                     Registered(p[1], p[2])' = Registered(p[1], p[2])
              /\ generators' = generators
              /\ ob_generators' = ob_generators
              /\ hom_generators' = hom_generators]_vars

\* The pair (i, t) is overwritten: it held Generator(s) and now holds
\* Generator(t), with another pair registered beside it.
C11_Witness ==
    /\ call.op = "set_composite"
    /\ call.args = <<"i", "t", Generator("t")>>
    /\ compose_map[<<"i", "t">>] = Generator("t")
    /\ Registered("i", "s")
    /\ Composable("i", "t")
    /\ compose2(Generator("i"), Generator("t")) = Generator("t")

\* C12: add_ob_generator(v) and add_hom_generator(e, dom, cod) return true
\* exactly when the generator was not present before the call;
\* add_hom_generator returns normally also when dom or cod is no object
\* generator; and after a call that returned true, has_hom(Generator(e))
\* holds, dom(Generator(e)) = dom and cod(Generator(e)) = cod.
C12_AddGeneratorReturnsNew ==
    [][/\ \A v \in Obs :
              (call'.op = "add_ob_generator" /\ call'.args = <<v>>) =>
                  /\ call'.ret = ~has_ob_generator(v)
                  /\ has_ob_generator(v)'
                  /\ has_ob(v)'
       /\ \A h \in HomGenInputs :
              (call'.op = "add_hom_generator" /\ call'.args = h) =>
              LET e == h[1]
                  d == h[2]
                  c == h[3]
              IN  /\ call'.ret \in BOOLEAN
                  /\ call'.ret = ~has_hom_generator(Generator(e))
                  /\ call'.ret = TRUE =>
                         /\ has_hom(Generator(e))'
                         /\ dom(Generator(e))' = d
                         /\ cod(Generator(e))' = c]_vars

\* An edge added, as new, between vertices the graph does not hold.
C12_Witness ==
    /\ call.op = "add_hom_generator"
    /\ call.args = <<"s", "E", "V">>
    /\ call.ret = TRUE
    /\ ~has_ob("E") /\ ~has_ob("V")
    /\ has_hom(Generator("s"))
    /\ dom(Generator("s")) = "E" /\ cod(Generator("s")) = "V"

(***************************************************************************)
(* Properties of the standard theories.                                    *)
(***************************************************************************)

\* What each theory function is to return: the finished theory, written out.
TheoryOf(vs, es, src, tgt, comp) ==
    [category |->
        [generators |-> [vertex_set |-> vs, edge_set |-> es,
                         src_map |-> src, tgt_map |-> tgt],
         compose_map |-> comp]]

ExpectedTheory(c, th) ==
    IF c = "catlog" THEN
        CASE th = "th_category" -> TheoryOf({"object"}, {}, <<>>, <<>>, <<>>)
          [] th = "th_schema" ->
                 TheoryOf({"entity", "attr_type"}, {"attr"},
                          [e \in {"attr"} |-> "entity"],
                          [e \in {"attr"} |-> "attr_type"], <<>>)
          [] th = "th_signed_category" ->
                 TheoryOf({"object"}, {"negative"},
                          [e \in {"negative"} |-> "object"],
                          [e \in {"negative"} |-> "object"],
                          [p \in {<<"negative", "negative">>} |-> Id("object")])
    ELSE
        CASE th = "th_category" -> TheoryOf({"Object"}, {}, <<>>, <<>>, <<>>)
          [] th = "th_schema" ->
                 TheoryOf({"Entity", "AttrType"}, {"Attr"},
                          [e \in {"Attr"} |-> "Entity"],
                          [e \in {"Attr"} |-> "AttrType"], <<>>)
          [] th = "th_signed_category" ->
                 TheoryOf({"Object"}, {"Negative"},
                          [e \in {"Negative"} |-> "Object"],
                          [e \in {"Negative"} |-> "Object"],
                          [p \in {<<"Negative", "Negative">>} |-> Id("Object")])
          [] th = "th_category_links" ->
                 [ob_types |-> {"Object"}, mor_types |-> {"Link"},
                  src |-> [m \in {"Link"} |-> TabObType_Basic("Object")],
                  tgt |-> [m \in {"Link"} |->
                              tabulator(hom_type(TabObType_Basic("Object")))]]

\* Every caller got a finished theory.
NeverPartiallyBuilt == \A r \in returned : r.value = ExpectedTheory(crate, r.th)

\* Each builder was entered at most once and all callers of a theory got the
\* same instance of it.
BuiltOnceAndShared ==
    /\ \A th \in Theories : builds[th] <= 1
    /\ \A r1 \in returned, r2 \in returned :
           r1.th = r2.th => r1.instance = r2.instance

\* C6 as stated: each standard theory is built at most once per process, and
\* every caller, first or later, gets the same fully built instance.
C6_BuiltOnce_Original == NeverPartiallyBuilt /\ BuiltOnceAndShared

\* C6, amended: no caller ever gets a partially built theory. With the
\* OnceLock statics of catlog/src/stdlib/theories.rs each theory is built at
\* most once, under any interleaving of first calls, and every caller gets
\* that one instance; packages/catlog/src/stdlib/theories.rs returns the
\* theory by value, and each call builds an instance of its own.
C6_BuiltOnce ==
    /\ NeverPartiallyBuilt
    /\ crate = "catlog" =>
           /\ BuiltOnceAndShared
           /\ \A th \in Theories :
                  once[th] = "complete" =>
                      /\ builds[th] = 1
                      /\ cell[th].value = ExpectedTheory(crate, th)
    /\ crate = "packages/catlog" =>
           \A r1 \in returned, r2 \in returned :
               (r1.th = r2.th /\ r1.thread # r2.thread)
                   => r1.instance # r2.instance

C6_Witness ==
    /\ crate = "catlog"
    /\ \E r1 \in returned, r2 \in returned :
           /\ r1.th = "th_signed_category" /\ r2.th = "th_signed_category"
           /\ r1.thread # r2.thread
           /\ r1.instance = r2.instance
           /\ r1.value = ExpectedTheory("catlog", "th_signed_category")
    /\ builds["th_signed_category"] = 1

\* The names the crate gives the signed category's object and morphism.
SignedObject == IF crate = "catlog" THEN "object" ELSE "Object"

Negative == IF crate = "catlog" THEN "negative" ELSE "Negative"

\* C13: th_signed_category has exactly one basic object type and exactly one
\* basic morphism type, negative, an endomorphism of the object type;
\* negative composed with negative is the identity on the object type; and
\* a path of k copies of negative composes to the identity when k is even
\* and to negative when k is odd.
C13_SignedCategory ==
    /\ \A r \in returned :
           r.th = "th_signed_category" =>
               /\ DiscreteDblTheory_basic_ob_types(r.value) = {SignedObject}
               /\ Cardinality(DiscreteDblTheory_basic_ob_types(r.value)) = 1
               /\ DiscreteDblTheory_basic_mor_types(r.value) = {Generator(Negative)}
               /\ Cardinality(DiscreteDblTheory_basic_mor_types(r.value)) = 1
               /\ DiscreteDblTheory_src(r.value, Generator(Negative)) = SignedObject
               /\ DiscreteDblTheory_tgt(r.value, Generator(Negative)) = SignedObject
               /\ r.value.category.compose_map[<<Negative, Negative>>]
                      = Id(SignedObject)
    /\ (call.op = "compose_types" /\ call.args[1] = "th_signed_category") =>
           LET path == call.args[2]
           IN  /\ path.tag = "Id" => call.ret = Id(path.content)
               /\ path.tag = "Seq" =>
                      /\ path.content = Copies(Generator(Negative), Len(path.content))
                      /\ call.ret = IF Len(path.content) % 2 = 0
                                    THEN Id(SignedObject)
                                    ELSE Generator(Negative)

\* Three copies of negative composed to negative, in the shared theory.
C13_Witness ==
    /\ crate = "catlog"
    /\ call.op = "compose_types"
    /\ call.args = <<"th_signed_category",
                     PathSeq(Copies(Generator("negative"), 3))>>
    /\ call.ret = Generator("negative")
    /\ compose_map = [p \in {<<"negative", "negative">>} |-> Id("object")]

\* The theories of categories with links handed to callers.
LinksTheories == {r.value : r \in {q \in returned : q.th = "th_category_links"}}

\* C14 as stated: th_category_links has one basic object type, Object, and
\* exactly one basic morphism type, Link, whose source is
\* tabulator(hom_type(Object)) and whose target is Object.
C14_CategoryLinks_Original ==
    \A thy \in LinksTheories :
        /\ DiscreteTabTheory_basic_ob_types(thy) = {"Object"}
        /\ DiscreteTabTheory_basic_mor_types(thy) = {"Link"}
        /\ DiscreteTabTheory_src(thy, "Link")
               = tabulator(hom_type(TabObType_Basic("Object")))
        /\ DiscreteTabTheory_tgt(thy, "Link") = TabObType_Basic("Object")

\* C14, amended: th_category_links has one basic object type, Object, and
\* exactly one basic morphism type, Link, whose source is Object and whose
\* target is tabulator(hom_type(Object)).
C14_CategoryLinks ==
    \A thy \in LinksTheories :
        /\ DiscreteTabTheory_basic_ob_types(thy) = {"Object"}
        /\ DiscreteTabTheory_basic_mor_types(thy) = {"Link"}
        /\ Cardinality(DiscreteTabTheory_basic_mor_types(thy)) = 1
        /\ DiscreteTabTheory_src(thy, "Link") = TabObType_Basic("Object")
        /\ DiscreteTabTheory_tgt(thy, "Link")
               = tabulator(hom_type(TabObType_Basic("Object")))

C14_Witness ==
    /\ crate = "packages/catlog"
    /\ \E r \in returned :
           /\ r.th = "th_category_links"
           /\ DiscreteTabTheory_src(r.value, "Link") = TabObType_Basic("Object")
           /\ DiscreteTabTheory_tgt(r.value, "Link").tag = "Tabulator"

(***************************************************************************)
(* Properties of the finite sets.                                          *)
(***************************************************************************)

\* The elements of a SkelFinSet of size n, by its contains.
SkelElements(n) == {x \in 0..UsizeRange : SkelFinSet_contains(n, x)}

\* C7: for a SkelFinSet of size n, insert() returns n and leaves the set
\* {0..n}, and extend(k) returns the range n..n+k and leaves the set
\* {0..n+k-1}. (set.rs's insert returns nothing: only its effect is stated.)
C7_SkelInsertExtend ==
    /\ set_call.op = "SkelFinSet::insert" =>
           /\ set_call.ret.tag = "return"
           /\ set_call.ret.content = set_call.pre
           /\ SkelElements(skel) = 0..set_call.pre
    /\ set_call.op = "SkelFinSet::extend" =>
           /\ set_call.ret.tag = "return"
           /\ set_call.ret.content =
                  Range(set_call.pre, set_call.pre + set_call.args[1])
           /\ SkelElements(skel) = 0..(set_call.pre + set_call.args[1] - 1)
    /\ set_call.op = "set::SkelFinSet::insert" =>
           /\ set_call.ret.tag = "return"
           /\ SkelElements(skel_unit) = 0..set_call.pre

\* C8: HashFinSet::insert(x) returns true exactly when x was not in the set;
\* afterwards contains(x) holds; inserting a present element changes neither
\* len() nor any membership; len() counts the distinct elements inserted.
C8_HashInsert ==
    /\ set_call.op = "HashFinSet::insert" =>
           LET x == set_call.args[1]
               pre == set_call.pre
           IN  /\ set_call.ret.tag = "return"
               /\ set_call.ret.content = (x \notin pre)
               /\ HashFinSet_contains(hash, x)
               /\ x \in pre =>
                      /\ HashFinSet_len(hash) = Cardinality(pre)
                      /\ \A y \in HashElems \cup {2} :
                             HashFinSet_contains(hash, y) = (y \in pre)
               /\ HashFinSet_len(hash) =
                      Cardinality(pre) + (IF set_call.ret.content THEN 1 ELSE 0)
    /\ set_call.op = "HashFinSet::extend" =>
           HashFinSet_len(hash) =
               Cardinality(set_call.pre \cup
                   {set_call.args[1][j] : j \in DOMAIN set_call.args[1]})

C8_Witness ==
    /\ set_call.op = "HashFinSet::insert"
    /\ set_call.args[1] \in set_call.pre
    /\ set_call.ret = Return(FALSE)
    /\ hash = {3, 5, 7}

OnceEach(iter) ==
    \A j \in DOMAIN iter, k \in DOMAIN iter : iter[j] = iter[k] => j = k

\* C9: for SkelFinSet and HashFinSet, in every reachable state, len() is the
\* number of elements iter() yields, is_empty() is (len() == 0), and iter()
\* yields exactly the elements contains holds of, each once.
C9_LenIterContains ==
    /\ \A n \in {skel, skel_unit} :
           /\ SkelFinSet_len(n) = Len(SkelFinSet_iter(n))
           /\ FinSet_len(SkelFinSet_iter(n)) = SkelFinSet_len(n)
           /\ FinSet_is_empty(SkelFinSet_len(n)) = (Len(SkelFinSet_iter(n)) = 0)
           /\ OnceEach(SkelFinSet_iter(n))
           /\ {SkelFinSet_iter(n)[j] : j \in DOMAIN SkelFinSet_iter(n)}
                  = SkelElements(n)
    /\ HashFinSet_len(hash) = Cardinality(HashFinSet_iter(hash))
    /\ HashFinSet_is_empty(hash) = (HashFinSet_len(hash) = 0)
    /\ HashFinSet_iter(hash)
           = {x \in HashElems \cup {2} : HashFinSet_contains(hash, x)}

C9_Witness ==
    /\ skel = 3
    /\ skel_unit = 3
    /\ hash = {3, 5, 7}
    /\ set_call.op = "SkelFinSet::extend"
    /\ set_call.ret = Return(Range(1, 3))

\* C15: a SkelFinSet never shrinks: over every insert() and extend(k), with the
\* size held in a usize, the size after the call is at least the size before
\* it and every element contained before is contained after, also when the
\* sum exceeds the width of usize.
C15_NeverShrinks ==
    [][/\ SkelFinSet_len(skel') >= SkelFinSet_len(skel)
       /\ \A x \in Usize :
              SkelFinSet_contains(skel, x) => SkelFinSet_contains(skel', x)]_vars

(***************************************************************************)
(* Properties of the parser.                                               *)
(***************************************************************************)

\* The position stays within the tokens.
ParserPositionWithin == pos <= Len(tokens)

\* span() is not evaluated at eof.
ParserSpanWithin == ~(pc = "panicked" /\ result = Panic("index out of bounds"))

\* The fuel does not run out.
ParserNeverStuck == ~(pc = "panicked" /\ result = Panic("parser is stuck"))

\* C16: on every token sequence, the empty one and one that ends where a
\* factor is expected included, parse returns an Ok or an Err: the position
\* never exceeds tokens.len(), span() is never evaluated at tokens.len(),
\* and the parser never panics as stuck.
C16_ParseReturns ==
    /\ ParserPositionWithin
    /\ ParserSpanWithin
    /\ ParserNeverStuck
    /\ pc # "panicked"
    /\ pc = "done" => result.tag \in {"Ok", "Err"}

=============================================================================
